---- MODULE Spec2Model ----
(***************************************************************************)
(* Eurostat energy platform: the ETL cube decoder (etl/transform.py), the  *)
(* ETL batch (etl/main.py) and the forecast selector                       *)
(* (ml/forecast_utils.py) as state machines.                               *)
(*                                                                         *)
(* The specifications share the variables below; each keeps the other      *)
(* subsystems' variables at their idle values.                             *)
(*   SpecDecode    unravel_index applied to one (flat_index, sizes) pair   *)
(*   Spec          transform_dataset on one cube                           *)
(*   SpecForecast  run_forecast on one observation table                   *)
(*   SpecFeatures  _make_supervised applied to one series                  *)
(*   SpecXgb       _train_xgb applied to one (series, horizon, test_size)  *)
(*   SpecRecursion _train_xgb's recursive forecast from any feature table  *)
(*   SpecBatch     main's loop over config.DATASETS and its load step      *)
(***************************************************************************)
EXTENDS Integers, Sequences, FiniteSets, TLC

VARIABLES
    \* unravel_index(flat_index, sizes)
    flat_index, sizes, coords, dpc,
    \* transform_dataset(dataset_code, data, target_indicators)
    \* origin[j] is the flat index of the sparse entry that produced result[j]
    \* (history); df_index is the DataFrame's index: the position in result
    \* (from 1) of each row that survives the cleaning
    data, target_indicators, indicator_dim, pos, result, origin, df, df_index, tpc, error,
    \* run_forecast(data, country, indicator, horizon): obs is its `data`
    obs, country, indicator, horizon, series, test_size, x_res, es_res,
    \* _train_xgb's recursion: the working history, the rows so far, the step
    history_values, future_rows, step, rmse, feats,
    \* _train_xgb's feature table and its split: split.train is the rows
    \* handed to model.fit (line 76), split.test the rows the RMSE is taken on
    base_df, split,
    forecast_df, model_used, fpc,
    \* etl/main.py main(): di is the position in DATASETS of the dataset in
    \* hand, loaded what load_data_to_db received ("None" while not called),
    \* outcomes one entry per dataset dealt with (history)
    di, all_dataframes, loaded, outcomes, bpc

dvars == <<flat_index, sizes, coords, dpc>>
tvars == <<data, target_indicators, indicator_dim, pos, result, origin, df, df_index,
          tpc, error>>
fvars == <<obs, country, indicator, horizon, series, test_size, x_res, es_res,
          history_values, future_rows, step, rmse, feats, base_df, split,
          forecast_df, model_used, fpc>>
bvars == <<di, all_dataframes, loaded, outcomes, bpc>>
vars == <<dvars, tvars, fvars, bvars>>

\* ---------------------------------------------------------------- bounds
\* longest sizes list handed to the decoder
MaxDims == 3
\* largest dimension size handed to the decoder
MaxSize == 3
\* most entries in a cube's sparse value map
MaxEntries == 2
\* the observation table covers at most this many years per entity
MaxYears == 8
\* longest forecast horizon asked for
MaxHorizon == 2
\* the longest gap-free series an observation table holds
MaxLongYears == 16

\* ------------------------------------------------------------- utilities
Range(s) == {s[i] : i \in 1..Len(s)}

RECURSIVE Product(_)
Product(s) == IF s = <<>> THEN 1 ELSE Head(s) * Product(Tail(s))

RECURSIVE SeqsUpTo(_, _)
SeqsUpTo(S, n) ==
    IF n = 0 THEN {<<>>}
    ELSE LET shorter == SeqsUpTo(S, n - 1)
         IN shorter \cup {Append(s, x) : s \in {t \in shorter : Len(t) = n - 1}, x \in S}

\* -------------------------------------------------------- Index Decoder
\* a plausible slip: the FIRST listed dimension varies fastest
RECURSIVE unravel_index_first_fastest(_, _)
unravel_index_first_fastest(i, S) ==
    IF S = <<>> THEN <<>>
    ELSE <<i % Head(S)>> \o unravel_index_first_fastest(i \div Head(S), Tail(S))

\* etl/transform.py unravel_index: for size in reversed(sizes):
\* coords.append(flat_index % size); flat_index //= size; reversed at the end.
\* The quotient left after the first listed dimension is discarded.
RECURSIVE unravel_index(_, _)
unravel_index(i, S) ==
    IF S = <<>> THEN <<>>
    ELSE LET n == Len(S)
         IN Append(unravel_index(i \div S[n], SubSeq(S, 1, n - 1)), i % S[n])

\* the spec's re-encoding: sum over d of coord[d] * product(S[d+1:])
RECURSIVE Encode(_, _)
Encode(c, S) ==
    IF c = <<>> \/ S = <<>> THEN 0
    ELSE Head(c) * Product(Tail(S)) + Encode(Tail(c), Tail(S))

DecodeIdle == flat_index = 0 /\ sizes = <<>> /\ coords = <<>> /\ dpc = "idle"

DecodeInit ==
    /\ sizes \in SeqsUpTo(1..MaxSize, MaxDims)
    /\ flat_index \in 0..(2 * Product(sizes) - 1)
    /\ coords = <<>>
    /\ dpc = "call"

Decode ==
    /\ dpc = "call"
    /\ coords' = unravel_index(flat_index, sizes)
    /\ dpc' = "done"
    /\ UNCHANGED <<flat_index, sizes, tvars, fvars, bvars>>

\* ------------------------------------------------ Cube-to-Records: data
\* A Python dict is a sequence of <<key, value>> pairs in insertion order;
\* None is the string "None".
Keys(d) == [i \in 1..Len(d) |-> d[i][1]]
HasKey(d, k) == \E i \in 1..Len(d) : d[i][1] = k
Get(d, k, default) ==
    IF HasKey(d, k) THEN d[CHOOSE i \in 1..Len(d) : d[i][1] = k][2] ELSE default

\* one entry of data['dimension']: name -> {category: {label: .., index: ..}}
Dim(name, label, index) == [name |-> name, label |-> label, index |-> index]

Geo == Dim("geo", <<<<"DE", "Germany">>, <<"FR", "France">>>>,
                  <<<<"DE", 0>>, <<"FR", 1>>>>)
GeoDE == Dim("geo", <<<<"DE", "Germany">>>>, <<<<"DE", 0>>>>)
Time == Dim("time", <<<<"2020", "2020">>>>, <<<<"2020", 0>>>>)
TimeQuarter == Dim("time", <<<<"2020-Q1", "2020-Q1">>>>, <<<<"2020-Q1", 0>>>>)
NrgBal == Dim("nrg_bal", <<<<"GEP", "Gross electricity production">>, <<"X", "Other">>>>,
                         <<<<"GEP", 0>>, <<"X", 1>>>>)
Unit == Dim("unit", <<<<"GWH", "Gigawatt-hour">>>>, <<<<"GWH", 0>>>>)
Siec == Dim("siec", <<<<"TOTAL", "Total">>, <<"RA000", "Renewables">>>>,
                    <<<<"TOTAL", 0>>, <<"RA000", 1>>>>)
\* a dimension ahead of nrg_bal whose labels also carry an indicator code
Flow == Dim("flow", <<<<"RA000", "Renewables">>, <<"GEP", "Gross production">>>>,
                    <<<<"RA000", 0>>, <<"GEP", 1>>>>)
\* geo with its index map listed against its positions ({"FR": 1, "DE": 0})
GeoListedBackwards == Dim("geo", <<<<"DE", "Germany">>, <<"FR", "France">>>>,
                                 <<<<"FR", 1>>, <<"DE", 0>>>>)
\* an indicator dimension with a category that has no label
NrgBalUnlabelled == Dim("nrg_bal", <<<<"FC_E", "Final consumption">>>>,
                                   <<<<"FC_E", 0>>, <<"FC_IND_E", 1>>>>)

\* the dimension catalogs of the cubes considered, in dict order
CubeShapes ==
    { <<>>,
      <<Geo, Time, NrgBal, Unit>>,
      <<GeoListedBackwards, Time, NrgBal, Unit>>,
      <<GeoDE, Time, NrgBalUnlabelled>>,
      <<Siec, GeoDE, Time, NrgBal>>,
      <<Flow, GeoDE, Time, NrgBal>>,
      <<Geo, Time, Unit>>,
      <<Time, NrgBal, Unit>>,
      <<GeoDE, NrgBal, Unit>>,
      <<Geo, TimeQuarter, NrgBal>> }

\* raw values of the sparse map: numeric text, the ":" sentinel, JSON null
\* (None) and text that float() reads as NaN or infinity
RawValues == {"100.5", "200.0", ":", "None", "nan", "inf"}

RECURSIVE Ascending(_)
Ascending(S) ==
    IF S = {} THEN <<>>
    ELSE LET m == CHOOSE x \in S : \A y \in S : x <= y
         IN <<m>> \o Ascending(S \ {m})

\* sparse maps with at most MaxEntries entries, keys ascending, one key
\* possibly at or past product(size)
ValueMaps(n) ==
    UNION { {[i \in 1..Len(Ascending(K)) |-> <<Ascending(K)[i], raw[Ascending(K)[i]]>>] :
                raw \in [K -> RawValues]} :
            K \in {K \in SUBSET (0..n) : Cardinality(K) <= MaxEntries} }

Cube(shape, has_id, values) ==
    [dimension |-> shape,
     has_id |-> has_id,
     id |-> IF has_id THEN [i \in 1..Len(shape) |-> shape[i].name] ELSE <<>>,
     size |-> [i \in 1..Len(shape) |-> Len(shape[i].index)],
     value |-> values]

\* 'id' is given for the four-dimension cubes and left to default otherwise
CubesOf(shape) ==
    {Cube(shape, Len(shape) > 3, v) :
        v \in ValueMaps(Product([i \in 1..Len(shape) |-> Len(shape[i].index)]))}

\* structurally invalid cubes: 'size' one entry shorter or one longer than
\* 'id'
MismatchedCubes(shape) ==
    LET size == [i \in 1..Len(shape) |-> Len(shape[i].index)]
    IN UNION { {[Cube(shape, TRUE, v) EXCEPT !.size = sz] : v \in ValueMaps(Product(sz))} :
               sz \in {SubSeq(size, 1, Len(size) - 1), Append(size, 1)} }

Cubes ==
    UNION {CubesOf(shape) : shape \in CubeShapes}
    \cup MismatchedCubes(<<Geo, Time, NrgBal, Unit>>)

\* config.DATASETS[..]["indicators"]
TargetLists == { <<"GEP">>, <<"FC_E", "FC_IND_E">> }

TransformIdle ==
    /\ data = [dimension |-> <<>>, has_id |-> FALSE, id |-> <<>>, size |-> <<>>,
               value |-> <<>>]
    /\ target_indicators = <<>>
    /\ indicator_dim = "None"
    /\ pos = 0
    /\ result = <<>>
    /\ origin = <<>>
    /\ df = <<>>
    /\ df_index = <<>>
    /\ tpc = "idle"
    /\ error = "None"

\* load_data_to_db not called
NotLoaded == [called |-> FALSE, rows |-> <<>>]

BatchIdle ==
    /\ di = 0 /\ all_dataframes = <<>> /\ loaded = NotLoaded /\ outcomes = <<>>
    /\ bpc = "idle"

\* --------------------------------------------- Cube-to-Records: operators
\* a plausible slip: the ":" sentinel coerced to 0.0 instead of raising
ToFloat_sentinel_as_zero(val) ==
    CASE val = "100.5" -> [ok |-> TRUE, kind |-> "finite", tenths |-> 1005]
      [] val = "200.0" -> [ok |-> TRUE, kind |-> "finite", tenths |-> 2000]
      [] val = "nan" -> [ok |-> TRUE, kind |-> "nan", tenths |-> 0]
      [] val = "inf" -> [ok |-> TRUE, kind |-> "inf", tenths |-> 0]
      [] val = ":" -> [ok |-> TRUE, kind |-> "finite", tenths |-> 0]
      [] OTHER -> [ok |-> FALSE, kind |-> "error", tenths |-> 0]

\* float(val): the parsed value in tenths, NaN or infinity; ok = FALSE when
\* float() raises ValueError (":") or TypeError (None)
ToFloat(val) ==
    CASE val = "100.5" -> [ok |-> TRUE, kind |-> "finite", tenths |-> 1005]
      [] val = "200.0" -> [ok |-> TRUE, kind |-> "finite", tenths |-> 2000]
      [] val = "nan" -> [ok |-> TRUE, kind |-> "nan", tenths |-> 0]
      [] val = "inf" -> [ok |-> TRUE, kind |-> "inf", tenths |-> 0]
      [] OTHER -> [ok |-> FALSE, kind |-> "error", tenths |-> 0]

\* a plausible slip: the scan keeps going and the LAST matching dimension wins
detect_indicator_dimension_last(dimensions, indicators) ==
    LET hit(i) == \E ind \in Range(indicators) : HasKey(dimensions[i].label, ind)
    IN IF \E i \in 1..Len(dimensions) : hit(i)
       THEN dimensions[CHOOSE i \in 1..Len(dimensions) :
                           hit(i) /\ \A j \in (i + 1)..Len(dimensions) : ~hit(j)].name
       ELSE "None"

\* detect_indicator_dimension: the first dimension, in dict order, one of
\* whose label keys is a target indicator; None when there is none
detect_indicator_dimension(dimensions, indicators) ==
    LET hit(i) == \E ind \in Range(indicators) : HasKey(dimensions[i].label, ind)
    IN IF \E i \in 1..Len(dimensions) : hit(i)
       THEN dimensions[CHOOSE i \in 1..Len(dimensions) :
                           hit(i) /\ \A j \in 1..(i - 1) : ~hit(j)].name
       ELSE "None"

\* dim_ids = data.get('id', list(dim.keys()))
DimIds(d) == IF d.has_id THEN d.id ELSE [i \in 1..Len(d.dimension) |-> d.dimension[i].name]

\* dim[d] for a dimension name d
DimNamed(d, name) ==
    d.dimension[CHOOSE i \in 1..Len(d.dimension) : d.dimension[i].name = name]
HasDim(d, name) == \E i \in 1..Len(d.dimension) : d.dimension[i].name = name

\* indexes = [dim[d]['category']['index'] for d in dim_ids]
Indexes(d) == [i \in 1..Len(DimIds(d)) |-> DimNamed(d, DimIds(d)[i]).index]

\* labels.get(name, {}).get(code, default)
LabelOf(d, name, code, default) ==
    IF HasDim(d, name) THEN Get(DimNamed(d, name).label, code, default) ELSE default

\* keys = [list(indexes[i].keys())[idx[i]] for i in range(len(idx))] raises
\* IndexError when idx is longer than indexes or a coordinate is past the
\* listed codes; dim_map = {dim_ids[i]: keys[i] ...} when keys is shorter
\* than dim_ids
KeysRaise(d, idx) ==
    \/ Len(idx) > Len(Indexes(d))
    \/ \E i \in 1..Len(idx) : idx[i] + 1 > Len(Indexes(d)[i])
    \/ Len(idx) < Len(DimIds(d))

\* the code at list position idx[i] of each dimension's index keys
KeysOf(d, idx) == [i \in 1..Len(idx) |-> Keys(Indexes(d)[i])[idx[i] + 1]]

\* dim_map.get(name): with a repeated id the last assignment wins
DimMapGet(d, keys, name) ==
    LET ids == DimIds(d)
    IN IF \E i \in 1..Len(ids) : ids[i] = name
       THEN keys[CHOOSE i \in 1..Len(ids) :
                     ids[i] = name /\ \A j \in (i + 1)..Len(ids) : ids[j] # name]
       ELSE "None"

\* a plausible slip: the allow-list test left out
IndicatorAllowed_unfiltered(code, indicators) == TRUE

\* indicator not in target_indicators -> continue
IndicatorAllowed(code, indicators) == code \in Range(indicators)

\* the dict appended to result (lines 77-87)
Row(d, keys, ind_dim, val_float) ==
    LET g == DimMapGet(d, keys, "geo")
        u == DimMapGet(d, keys, "unit")
        ind == DimMapGet(d, keys, ind_dim)
    IN [dataset_code |-> "ds",
        country_code |-> g,
        country_name |-> LabelOf(d, "geo", g, g),
        indicator_code |-> ind,
        indicator_label |-> LabelOf(d, ind_dim, ind, "None"),
        unit_code |-> u,
        unit_label |-> LabelOf(d, "unit", u, "None"),
        time |-> DimMapGet(d, keys, "time"),
        value |-> [kind |-> val_float.kind, tenths |-> val_float.tenths]]

\* df.drop_duplicates(): the first of each run of equal rows is kept
DropDuplicates(rows) == {i \in 1..Len(rows) : \A j \in 1..(i - 1) : rows[j] # rows[i]}

\* isnull() of one cell: None, or a float NaN (infinity is not null)
IsNull(row, col) ==
    IF col = "value" THEN row.value.kind = "nan" ELSE row[col] = "None"

cols_check == {"country_code", "country_name", "indicator_code", "indicator_label",
               "time", "value"}

\* a plausible slip: dropna(how='all'), dropping only the rows in which
\* every listed field is null
DropNa_how_all(rows, kept) == {i \in kept : \E col \in cols_check : ~IsNull(rows[i], col)}

\* df.dropna(subset=cols_check)
DropNa(rows, kept) == {i \in kept : \A col \in cols_check : ~IsNull(rows[i], col)}

\* a plausible slip: the leading year of a longer period string accepted
\* (a non-exact match) instead of raising
ParseYear_leading_year(t) ==
    CASE t = "2020" -> [ok |-> TRUE, year |-> 2020]
      [] t = "2021" -> [ok |-> TRUE, year |-> 2021]
      [] t = "2020-Q1" -> [ok |-> TRUE, year |-> 2020]
      [] OTHER -> [ok |-> FALSE, year |-> 0]

\* pd.to_datetime(.., format='%Y'): a 4-digit year, else ValueError
ParseYear(t) ==
    CASE t = "2020" -> [ok |-> TRUE, year |-> 2020]
      [] t = "2021" -> [ok |-> TRUE, year |-> 2021]
      [] OTHER -> [ok |-> FALSE, year |-> 0]

\* ------------------------------------------------ Cube-to-Records: actions
TransformInit ==
    /\ data \in Cubes
    /\ target_indicators \in TargetLists
    /\ indicator_dim = "None"
    /\ pos = 0
    /\ result = <<>>
    /\ origin = <<>>
    /\ df = <<>>
    /\ df_index = <<>>
    /\ tpc = "start"
    /\ error = "None"

\* lines 38-51: the lookups, then the indicator dimension or the soft fail
TransformStart ==
    /\ tpc = "start"
    /\ IF \E i \in 1..Len(DimIds(data)) : ~HasDim(data, DimIds(data)[i])
       THEN /\ tpc' = "raised"
            /\ error' = "KeyError"
            /\ UNCHANGED indicator_dim
       ELSE /\ indicator_dim' = detect_indicator_dimension(data.dimension, target_indicators)
            /\ tpc' = IF indicator_dim' = "None" THEN "done" ELSE "loop"
            /\ UNCHANGED error
    /\ UNCHANGED <<data, target_indicators, pos, result, origin, df, df_index, dvars, fvars, bvars>>

\* lines 56-87: one iteration of the loop over value_data.items()
ProcessEntry ==
    /\ tpc = "loop"
    /\ pos < Len(data.value)
    /\ LET key == data.value[pos + 1][1]
           val_float == ToFloat(data.value[pos + 1][2])
           idx == unravel_index(key, data.size)
           keys == KeysOf(data, idx)
       IN IF ~val_float.ok
          THEN /\ pos' = pos + 1
               /\ UNCHANGED <<result, origin, tpc, error>>
          ELSE IF KeysRaise(data, idx)
          THEN /\ tpc' = "raised"
               /\ error' = "IndexError"
               /\ UNCHANGED <<pos, result, origin>>
          ELSE IF ~IndicatorAllowed(DimMapGet(data, keys, indicator_dim), target_indicators)
          THEN /\ pos' = pos + 1
               /\ UNCHANGED <<result, origin, tpc, error>>
          ELSE /\ result' = Append(result, Row(data, keys, indicator_dim, val_float))
               /\ origin' = Append(origin, key)
               /\ pos' = pos + 1
               /\ UNCHANGED <<tpc, error>>
    /\ UNCHANGED <<data, target_indicators, indicator_dim, df, df_index, dvars, fvars, bvars>>

\* lines 89-117: empty result, drop_duplicates, dropna, the year parse
Clean ==
    /\ tpc = "loop"
    /\ pos = Len(data.value)
    /\ LET kept == Ascending(DropNa(result, DropDuplicates(result)))
       IN IF result = <<>>
          THEN /\ tpc' = "done"
               /\ UNCHANGED <<df, df_index, error>>
          ELSE IF \E i \in Range(kept) : ~ParseYear(result[i].time).ok
          THEN /\ tpc' = "raised"
               /\ error' = "ValueError"
               /\ UNCHANGED <<df, df_index>>
          ELSE /\ df' = [j \in 1..Len(kept) |->
                            [result[kept[j]] EXCEPT
                                !.time = ParseYear(result[kept[j]].time).year]]
               /\ df_index' = kept
               /\ tpc' = "done"
               /\ UNCHANGED error
    /\ UNCHANGED <<data, target_indicators, indicator_dim, pos, result, origin, dvars, fvars, bvars>>

\* ------------------------------------------------------- Forecast: data
NoForecast == "No forecast (insufficient data)"
\* _make_supervised's n_lags
n_lags == 3
\* run_forecast: a series shorter than this is not forecast
MinPoints == 5
\* the rolling window of _make_supervised and of the recursion
RollWindow == 3
\* _train_xgb's default test_size, the largest run_forecast passes
DefaultTestSize == 5

Years == 2001..(2000 + MaxYears)
\* held-out RMSE values and predictions a fitted model may give
Rmses == {1, 2}
PredValues == {10, 20}

Max(S) == CHOOSE x \in S : \A y \in S : y <= x

RECURSIVE Descending(_)
Descending(S) ==
    IF S = {} THEN <<>> ELSE <<Max(S)>> \o Descending(S \ {Max(S)})

\* the observation table: DE/GEP rows for the years Ys, latest first (time is
\* the year of the stored date), with a second row for the latest year when
\* dup, then four FR/GEP rows.  Values are even, so a two-row mean is exact.
ObsTable(Ys, dup) ==
    [k \in 1..Cardinality(Ys) |->
        [geo |-> "DE", indicator |-> "GEP", time |-> Descending(Ys)[k],
         value |-> 10 * (Descending(Ys)[k] - 2000)]]
    \o (IF dup /\ Ys # {}
        THEN <<[geo |-> "DE", indicator |-> "GEP", time |-> Max(Ys),
                value |-> 10 * (Max(Ys) - 2000) + 2]>>
        ELSE <<>>)
    \o [k \in 1..4 |-> [geo |-> "FR", indicator |-> "GEP", time |-> 2000 + k,
                        value |-> 4 * k]]

\* every table over the window Years, and the gap-free tables longer than it
ObsTables ==
    {ObsTable(Ys, dup) : Ys \in SUBSET Years, dup \in BOOLEAN}
    \cup {ObsTable(2001..(2000 + n), FALSE) : n \in (MaxYears + 1)..MaxLongYears}

\* --------------------------------------------------- Forecast: operators
RECURSIVE SumSeq(_)
SumSeq(s) == IF s = <<>> THEN 0 ELSE Head(s) + SumSeq(Tail(s))

\* a plausible slip: the country test left out of the row filter
SeriesRows_any_country(d, c, i) == SelectSeq(d, LAMBDA r : r.indicator = i)

\* data[(data["geo"] == country) & (data["indicator"] == indicator)]
SeriesRows(d, c, i) == SelectSeq(d, LAMBDA r : r.geo = c /\ r.indicator = i)

\* _get_series: groupby("year")["value"].mean().sort_index()
get_series(d, c, i) ==
    LET rows == SeriesRows(d, c, i)
        ys == Ascending({rows[k].time : k \in 1..Len(rows)})
        vals(y) == SelectSeq(rows, LAMBDA r : r.time = y)
    IN [k \in 1..Len(ys) |->
           [year |-> ys[k],
            value |-> SumSeq([j \in 1..Len(vals(ys[k])) |-> vals(ys[k])[j].value])
                          \div Len(vals(ys[k]))]]

\* a plausible slip: lag j read from the row of the year j years back (null
\* when the series has no such year) instead of the row j positions back
make_supervised_by_year(ser) ==
    LET at(y) == {k \in 1..Len(ser) : ser[k].year = y}
        row(k) ==
          [year |-> ser[k].year,
           value |-> ser[k].value,
           lags |-> [j \in 1..n_lags |->
                        IF at(ser[k].year - j) # {}
                        THEN ser[CHOOSE i \in at(ser[k].year - j) : TRUE].value
                        ELSE 0],
           roll_window |-> IF k >= RollWindow
                           THEN [j \in 1..RollWindow |-> ser[k - RollWindow + j].value]
                           ELSE <<>>,
           roll_ddof |-> 1,
           nulls |-> Cardinality({j \in 1..n_lags : at(ser[k].year - j) = {}})
                     + (IF k >= RollWindow THEN 0 ELSE 2)]
    IN SelectSeq([k \in 1..Len(ser) |-> row(k)], LAMBDA r : r.nulls = 0)

\* _make_supervised: shift(lag) and rolling(3) leave the leading rows with
\* nulls (counted in `nulls`); dropna keeps the rows without any.
\* roll_window holds the values roll_mean_3 and roll_std_3 are taken over,
\* roll_ddof the divisor offset of the standard deviation.
make_supervised(ser) ==
    LET row(k) ==
          [year |-> ser[k].year,
           value |-> ser[k].value,
           lags |-> [j \in 1..n_lags |-> IF k - j >= 1 THEN ser[k - j].value ELSE 0],
           roll_window |-> IF k >= RollWindow
                           THEN [j \in 1..RollWindow |-> ser[k - RollWindow + j].value]
                           ELSE <<>>,
           roll_ddof |-> 1,
           nulls |-> Cardinality({j \in 1..n_lags : k - j < 1})
                     + (IF k >= RollWindow THEN 0 ELSE 2)]
    IN SelectSeq([k \in 1..Len(ser) |-> row(k)], LAMBDA r : r.nulls = 0)

\* the (None, None, None, name) a forecaster returns for too short a series
Insufficient(name) ==
    [ok |-> FALSE, hist |-> <<>>, future |-> <<>>, rmse |-> 0, name |-> name]

\* a plausible slip: a table of exactly test_size + 1 rows let through
XgbInsufficient_strict(table, ts) == table = <<>> \/ Len(table) < ts + 1

\* _train_xgb line 60
XgbInsufficient(table, ts) == table = <<>> \/ Len(table) <= ts + 1

\* _train_es line 121
EsInsufficient(ser, ts) == Len(ser) <= ts + 2

\* a plausible slip: half of the series held out instead of a third
TestSize_half(n) ==
    LET half == n \div 2
        atleast2 == IF half > 2 THEN half ELSE 2
    IN IF atleast2 < 5 THEN atleast2 ELSE 5

\* run_forecast line 185
TestSize(n) ==
    LET third == n \div 3
        atleast2 == IF third > 2 THEN third ELSE 2
    IN IF atleast2 < 5 THEN atleast2 ELSE 5

\* the index of full_fit.forecast(horizon): the series is indexed by year,
\* an integer index that is not 0..n-1, which the smoothing model does not
\* take as a time index; its forecasts are then labelled by position, from
\* len(series) on.  Line 144 reads these labels as the years.
EsForecastIndex(ser, h) == [k \in 1..h |-> Len(ser) + k - 1]

\* a stable sort of <<key, item>> pairs by key (Python's list.sort)
RECURSIVE StableSort(_)
StableSort(s) ==
    IF Len(s) <= 1 THEN s
    ELSE LET rest == StableSort(Tail(s))
             k == Cardinality({i \in 1..Len(rest) : rest[i][1] < Head(s)[1]})
         IN SubSeq(rest, 1, k) \o <<Head(s)>> \o SubSeq(rest, k + 1, Len(rest))

\* a plausible slip: the candidates sorted with the highest RMSE first
SortCandidates_descending(cands) ==
    LET sorted == StableSort([j \in 1..Len(cands) |-> <<0 - cands[j].rmse, cands[j]>>])
    IN [j \in 1..Len(cands) |-> sorted[j][2]]

\* candidates.sort(key=lambda tup: tup[1])
SortCandidates(cands) ==
    LET sorted == StableSort([j \in 1..Len(cands) |-> <<cands[j].rmse, cands[j]>>])
    IN [j \in 1..Len(cands) |-> sorted[j][2]]

\* forecast_df.sort_values("year"); no two rows of the outputs modelled here
\* share a year, so the order of ties never shows
SortByYear(rows) ==
    LET sorted == StableSort([j \in 1..Len(rows) |-> <<rows[j].year, rows[j]>>])
    IN [j \in 1..Len(rows) |-> sorted[j][2]]

Tagged(rows, type) ==
    [j \in 1..Len(rows) |-> [year |-> rows[j].year, value |-> rows[j].value, type |-> type]]

\* a plausible slip: the model fitted on the whole table
TrainRows_all(table, ts) == table

\* _train_xgb lines 64-65: X.iloc[:-test_size] and X.iloc[-test_size:], for
\* a test_size from 1 to the table's length
TrainRows(table, ts) == SubSeq(table, 1, Len(table) - ts)

TestRows(table, ts) == SubSeq(table, Len(table) - ts + 1, Len(table))

\* _train_xgb lines 91-105: the feature row of one future year, from the
\* working history (never empty)
FutureFeats(history, year) ==
    LET n == Len(history)
        window_vals == IF n >= 3 THEN SubSeq(history, n - 2, n) ELSE history
    IN [year |-> year,
        lags |-> [lag \in 1..3 |->
                     IF n >= lag THEN history[n - lag + 1] ELSE history[n]],
        roll_window |-> window_vals,
        roll_ddof |-> 0]

\* a plausible slip: the prediction written over the last value of the
\* history instead of appended
AppendPrediction_overwrite_last(history, y_future) ==
    [history EXCEPT ![Len(history)] = y_future]

\* _train_xgb line 109: history_values.append(y_future)
AppendPrediction(history, y_future) == Append(history, y_future)

\* ----------------------------------------------------- Forecast: actions
NoFeats == [year |-> 0, lags |-> <<>>, roll_window |-> <<>>, roll_ddof |-> 0]

NoSplit == [train |-> <<>>, test |-> <<>>]

ForecastIdle ==
    /\ obs = <<>> /\ country = "None" /\ indicator = "None" /\ horizon = 0
    /\ series = <<>> /\ test_size = 0
    /\ x_res = Insufficient("None") /\ es_res = Insufficient("None")
    /\ history_values = <<>> /\ future_rows = <<>> /\ step = 0 /\ rmse = 0
    /\ feats = NoFeats /\ base_df = <<>> /\ split = NoSplit
    /\ forecast_df = <<>> /\ model_used = "None" /\ fpc = "idle"

ForecastInit ==
    /\ obs \in ObsTables
    /\ country \in {"DE", "FR", "IT"}
    /\ indicator = "GEP"
    /\ horizon \in 1..MaxHorizon
    /\ series = <<>> /\ test_size = 0
    /\ x_res = Insufficient("None") /\ es_res = Insufficient("None")
    /\ history_values = <<>> /\ future_rows = <<>> /\ step = 0 /\ rmse = 0
    /\ feats = NoFeats /\ base_df = <<>> /\ split = NoSplit
    /\ forecast_df = <<>> /\ model_used = "None" /\ fpc = "start"

\* run_forecast lines 178-185
GetSeries ==
    /\ fpc = "start"
    /\ series' = get_series(obs, country, indicator)
    /\ IF series' = <<>> \/ Len(series') < MinPoints
       THEN /\ forecast_df' = <<>>
            /\ model_used' = NoForecast
            /\ fpc' = "done"
            /\ UNCHANGED test_size
       ELSE /\ test_size' = TestSize(Len(series'))
            /\ fpc' = "xgb"
            /\ UNCHANGED <<forecast_df, model_used>>
    /\ UNCHANGED <<obs, country, indicator, horizon, x_res, es_res, history_values,
                   future_rows, step, rmse, feats, base_df, split, dvars, tvars, bvars>>

\* _train_xgb lines 59-86: the feature table, the insufficient-data return,
\* the fit and its held-out RMSE (whatever the fitted model gives)
XgbFit ==
    /\ fpc = "xgb"
    /\ base_df' = make_supervised(series)
    /\ IF XgbInsufficient(base_df', test_size)
       THEN /\ x_res' = Insufficient("XGBoost (insufficient data)")
            /\ fpc' = "es"
            /\ UNCHANGED <<history_values, step, rmse, split>>
       ELSE /\ split' = [train |-> TrainRows(base_df', test_size),
                         test |-> TestRows(base_df', test_size)]
            /\ \E r \in Rmses : rmse' = r
            /\ history_values' = [k \in 1..Len(base_df') |-> base_df'[k].value]
            /\ step' = 1
            /\ fpc' = "xgb_step"
            /\ UNCHANGED x_res
    /\ UNCHANGED <<obs, country, indicator, horizon, series, test_size, es_res,
                   future_rows, feats, forecast_df, model_used, dvars, tvars, bvars>>

\* _train_xgb lines 88-110: one step of the recursive forecast
XgbStep ==
    /\ fpc = "xgb_step"
    /\ step <= horizon
    /\ LET last_year == base_df[Len(base_df)].year
       IN /\ feats' = FutureFeats(history_values, last_year + step)
          /\ \E y_future \in PredValues :
                /\ history_values' = AppendPrediction(history_values, y_future)
                /\ future_rows' = Append(future_rows,
                                         [year |-> last_year + step, value |-> y_future])
    /\ step' = step + 1
    /\ UNCHANGED <<obs, country, indicator, horizon, series, test_size, x_res, es_res,
                   rmse, base_df, split, forecast_df, model_used, fpc, dvars, tvars, bvars>>

\* _train_xgb lines 112-114
XgbReturn ==
    /\ fpc = "xgb_step"
    /\ step > horizon
    /\ x_res' = [ok |-> TRUE,
                 hist |-> [k \in 1..Len(base_df) |->
                              [year |-> base_df[k].year, value |-> base_df[k].value]],
                 future |-> future_rows,
                 rmse |-> rmse,
                 name |-> "XGBoost"]
    /\ fpc' = "es"
    /\ UNCHANGED <<obs, country, indicator, horizon, series, test_size, es_res,
                   history_values, future_rows, step, rmse, feats, base_df, split,
                   forecast_df, model_used, dvars, tvars, bvars>>

\* _train_es lines 121-148
TrainEs ==
    /\ fpc = "es"
    /\ IF EsInsufficient(series, test_size)
       THEN es_res' = Insufficient("ExponentialSmoothing (insufficient data)")
       ELSE \E r \in Rmses, fc \in [1..horizon -> PredValues] :
               es_res' = [ok |-> TRUE,
                          hist |-> series,
                          future |-> [k \in 1..horizon |->
                                         [year |-> EsForecastIndex(series, horizon)[k],
                                          value |-> fc[k]]],
                          rmse |-> r,
                          name |-> "ExponentialSmoothing"]
    /\ fpc' = "select"
    /\ UNCHANGED <<obs, country, indicator, horizon, series, test_size, x_res,
                   history_values, future_rows, step, rmse, feats, base_df, split,
                   forecast_df, model_used, dvars, tvars, bvars>>

\* run_forecast lines 192-196
Candidates(x, es) ==
    (IF x.ok THEN <<x>> ELSE <<>>) \o (IF es.ok THEN <<es>> ELSE <<>>)

\* run_forecast lines 192-215
Select ==
    /\ fpc = "select"
    /\ LET candidates == Candidates(x_res, es_res)
           best == SortCandidates(candidates)[1]
       IN IF candidates = <<>>
          THEN /\ forecast_df' = <<>>
               /\ model_used' = NoForecast
          ELSE /\ forecast_df' = SortByYear(Tagged(best.hist, "historical")
                                            \o Tagged(best.future, "forecast"))
               /\ model_used' = best.name
    /\ fpc' = "done"
    /\ UNCHANGED <<obs, country, indicator, horizon, series, test_size, x_res, es_res,
                   history_values, future_rows, step, rmse, feats, base_df, split,
                   dvars, tvars, bvars>>

ForecastNext == GetSeries \/ XgbFit \/ XgbStep \/ XgbReturn \/ TrainEs \/ Select

InitForecast == ForecastInit /\ DecodeIdle /\ TransformIdle /\ BatchIdle

SpecForecast == InitForecast /\ [][ForecastNext]_vars

\* the series the forecasters are given
SeriesSet == {get_series(t, "DE", "GEP") : t \in ObsTables}

\* _make_supervised(series) called on its own
FeaturesInit ==
    /\ obs = <<>> /\ country = "None" /\ indicator = "None" /\ horizon = 0
    /\ series \in SeriesSet /\ test_size = 0
    /\ x_res = Insufficient("None") /\ es_res = Insufficient("None")
    /\ history_values = <<>> /\ future_rows = <<>> /\ step = 0 /\ rmse = 0
    /\ feats = NoFeats /\ base_df = <<>> /\ split = NoSplit
    /\ forecast_df = <<>> /\ model_used = "None" /\ fpc = "features"

MakeSupervised ==
    /\ fpc = "features"
    /\ base_df' = make_supervised(series)
    /\ fpc' = "features_done"
    /\ UNCHANGED <<obs, country, indicator, horizon, series, test_size, x_res, es_res,
                   history_values, future_rows, step, rmse, feats, split,
                   forecast_df, model_used, dvars, tvars, bvars>>

InitFeatures == FeaturesInit /\ DecodeIdle /\ TransformIdle /\ BatchIdle

SpecFeatures == InitFeatures /\ [][MakeSupervised]_vars

\* _train_xgb(series, horizon, test_size) called on its own, with a held-out
\* set of at least one row
XgbInit ==
    /\ obs = <<>> /\ country = "None" /\ indicator = "None"
    /\ horizon \in 1..MaxHorizon
    /\ series \in SeriesSet
    /\ test_size \in 1..DefaultTestSize
    /\ x_res = Insufficient("None") /\ es_res = Insufficient("None")
    /\ history_values = <<>> /\ future_rows = <<>> /\ step = 0 /\ rmse = 0
    /\ feats = NoFeats /\ base_df = <<>> /\ split = NoSplit
    /\ forecast_df = <<>> /\ model_used = "None" /\ fpc = "xgb"

XgbNext == XgbFit \/ XgbStep \/ XgbReturn

InitXgb == XgbInit /\ DecodeIdle /\ TransformIdle /\ BatchIdle

SpecXgb == InitXgb /\ [][XgbNext]_vars

\* _train_xgb's recursion (lines 82-114) entered with any non-empty feature
\* table, fitted model in hand: the state at line 82 without line 60's guard
RecursionInit ==
    /\ obs = <<>> /\ country = "None" /\ indicator = "None"
    /\ horizon \in 1..MaxHorizon
    /\ series \in SeriesSet /\ test_size = 0
    /\ x_res = Insufficient("None") /\ es_res = Insufficient("None")
    /\ base_df = make_supervised(series) /\ base_df # <<>>
    /\ history_values = [k \in 1..Len(base_df) |-> base_df[k].value]
    /\ future_rows = <<>> /\ step = 1 /\ rmse \in Rmses
    /\ feats = NoFeats /\ split = NoSplit
    /\ forecast_df = <<>> /\ model_used = "None" /\ fpc = "xgb_step"

RecursionNext == XgbStep \/ XgbReturn

InitRecursion == RecursionInit /\ DecodeIdle /\ TransformIdle /\ BatchIdle

SpecRecursion == InitRecursion /\ [][RecursionNext]_vars

TransformNext == TransformStart \/ ProcessEntry \/ Clean

Init == TransformInit /\ DecodeIdle /\ ForecastIdle /\ BatchIdle

Spec == Init /\ [][TransformNext]_vars

InitDecode == DecodeInit /\ TransformIdle /\ ForecastIdle /\ BatchIdle

SpecDecode == InitDecode /\ [][Decode]_vars

\* ------------------------------------------------------------ ETL batch
\* config.DATASETS, in dict order (of the five indicators of ten00124 the
\* first two are kept, as in TargetLists)
DATASETS ==
    << [code |-> "nrg_cb_e", indicators |-> <<"GEP">>],
       [code |-> "ten00124", indicators |-> <<"FC_E", "FC_IND_E">>] >>

\* fetch_dataset returns None: a RequestException (lines 21-23) or a
\* response without 'dimension', 'value' or 'size' (lines 15-18)
FetchFailures == {"request_error", "missing_keys"}

\* the responses a fetch may bring: the cubes with one of these value maps
BatchValues ==
    { <<>>, <<<<0, "100.5">>>>, <<<<0, ":">>>>, <<<<0, "100.5">>, <<1, "200.0">>>> }

BatchCubes == {c \in Cubes : c.value \in BatchValues}

\* a plausible slip: the loop left at the first failed fetch (break)
AfterFailedFetch_break(i) == Len(DATASETS) + 1

\* main line 28: continue, the loop goes on with the next dataset
AfterFailedFetch(i) == i + 1

\* pd.concat(all_dataframes, ignore_index=True)
RECURSIVE Concat(_)
Concat(frames) == IF frames = <<>> THEN <<>> ELSE Head(frames) \o Concat(Tail(frames))

BatchInit ==
    /\ di = 1 /\ all_dataframes = <<>> /\ loaded = NotLoaded /\ outcomes = <<>>
    /\ bpc = "fetch"

\* main lines 22-28 and the call of line 31
Fetch ==
    /\ bpc = "fetch"
    /\ di <= Len(DATASETS)
    /\ \/ \E f \in FetchFailures :
             /\ outcomes' = Append(outcomes, [code |-> DATASETS[di].code, fetch |-> f,
                                              frame |-> <<>>])
             /\ di' = AfterFailedFetch(di)
             /\ UNCHANGED <<tvars, bpc>>
       \/ \E raw_data \in BatchCubes :
             /\ data' = raw_data
             /\ target_indicators' = DATASETS[di].indicators
             /\ indicator_dim' = "None" /\ pos' = 0 /\ result' = <<>> /\ origin' = <<>>
             /\ df' = <<>> /\ df_index' = <<>> /\ tpc' = "start" /\ error' = "None"
             /\ bpc' = "transform"
             /\ UNCHANGED <<di, outcomes>>
    /\ UNCHANGED <<all_dataframes, loaded, dvars, fvars>>

\* main lines 31-33: transform_dataset has returned
Collect ==
    /\ bpc = "transform"
    /\ tpc = "done"
    /\ all_dataframes' = IF df # <<>> THEN Append(all_dataframes, df) ELSE all_dataframes
    /\ outcomes' = Append(outcomes, [code |-> DATASETS[di].code, fetch |-> "ok",
                                     frame |-> df])
    /\ di' = di + 1
    /\ bpc' = "fetch"
    /\ UNCHANGED <<loaded, dvars, tvars, fvars>>

\* main line 31: transform_dataset has raised; nothing in main catches it
Abort ==
    /\ bpc = "transform"
    /\ tpc = "raised"
    /\ bpc' = "raised"
    /\ UNCHANGED <<di, all_dataframes, loaded, outcomes, dvars, tvars, fvars>>

\* main lines 36-40
Load ==
    /\ bpc = "fetch"
    /\ di > Len(DATASETS)
    /\ loaded' = IF all_dataframes # <<>>
                 THEN [called |-> TRUE, rows |-> Concat(all_dataframes)]
                 ELSE loaded
    /\ bpc' = "done"
    /\ UNCHANGED <<di, all_dataframes, outcomes, dvars, tvars, fvars>>

BatchNext == Fetch \/ TransformStart \/ ProcessEntry \/ Clean \/ Collect \/ Abort \/ Load

InitBatch == BatchInit /\ TransformIdle /\ DecodeIdle /\ ForecastIdle

SpecBatch == InitBatch /\ [][BatchNext]_vars

\* C1: for sizes S of positive integers and 0 <= i < product(S), unravel_index
\* returns len(S) coordinates, each within [0, S[d]), whose re-encoding
\* sum coord[d] * product(S[d+1:]) is i; index 0 decodes to all zeros and
\* index product(S)-1 to [s-1 for s in S].
DecoderRoundTrip ==
    (dpc = "done" /\ flat_index < Product(sizes)) =>
        /\ Len(coords) = Len(sizes)
        /\ \A d \in 1..Len(sizes) : coords[d] \in 0..(sizes[d] - 1)
        /\ Encode(coords, sizes) = flat_index
        /\ (flat_index = 0 => coords = [d \in 1..Len(sizes) |-> 0])
        /\ (flat_index = Product(sizes) - 1 =>
                coords = [d \in 1..Len(sizes) |-> sizes[d] - 1])

\* a decoded in-range index of a cube with several dimensions of size >= 2
DecoderRoundTripWitness ==
    /\ dpc = "done"
    /\ sizes = <<2, 3, 2>>
    /\ flat_index = 7
    /\ coords = <<1, 0, 1>>
\* ------------------------------------------------- Cube-to-Records: claims
\* the entries of the sparse map already handled by the loop
Processed == 1..(IF tpc = "start" THEN 0 ELSE pos)
EntryKey(p) == data.value[p][1]
EntryRaw(p) == data.value[p][2]
InRange(p) == EntryKey(p) < Product(data.size)
\* the category code of dimension `name` at the entry's decoded coordinate
EntryCode(p, name) ==
    DimMapGet(data, KeysOf(data, unravel_index(EntryKey(p), data.size)), name)
\* entry p parses, and its indicator code is in the allow-list
EntryAllowed(p) ==
    /\ ToFloat(EntryRaw(p)).ok
    /\ indicator_dim # "None"
    /\ ~KeysRaise(data, unravel_index(EntryKey(p), data.size))
    /\ EntryCode(p, indicator_dim) \in Range(target_indicators)

\* C2: an entry whose flat index is >= product(sizes) is a hard failure and
\* produces no observation record.
OutOfRangeIsHardFailure ==
    tpc = "done" =>
        \A j \in 1..Len(df_index) : origin[df_index[j]] < Product(data.size)

\* the cubes C5 speaks of: one size per dimension, every value numeric and
\* finite, every flat index in range, geo and time present, every code labelled
NumericComplete ==
    /\ Len(data.size) = Len(DimIds(data))
    /\ \A p \in 1..Len(data.value) :
          ToFloat(EntryRaw(p)).ok /\ ToFloat(EntryRaw(p)).kind = "finite" /\ InRange(p)
    /\ HasDim(data, "geo") /\ HasDim(data, "time")
    /\ \A i \in 1..Len(data.dimension) :
          Range(Keys(data.dimension[i].label)) = Range(Keys(data.dimension[i].index))

\* C5 as stated: the record count is the number of sparse entries whose
\* indicator code is allowed, every record carries an allowed code and no
\* disallowed entry produces a record.
IndicatorFilterCount ==
    (tpc = "done" /\ NumericComplete) =>
        /\ Len(df) = Cardinality({p \in 1..Len(data.value) : EntryAllowed(p)})
        /\ \A j \in 1..Len(df) : df[j].indicator_code \in Range(target_indicators)
        /\ \A p \in 1..Len(data.value) :
              ~EntryAllowed(p) => EntryKey(p) \notin Range(origin)

\* what a record reports of an entry: its geo, time, unit and indicator codes
\* and its value (a further dimension of the cube is not reported)
EntryReport(p) ==
    <<EntryCode(p, "geo"), EntryCode(p, "time"), EntryCode(p, "unit"),
      EntryCode(p, indicator_dim), EntryRaw(p)>>

\* C5 amended: when the transform returns, the record count is the number of
\* DISTINCT (geo, time, unit, indicator, value) reports among the entries
\* whose indicator code is allowed (entries that differ only in an
\* unreported dimension and carry equal values collapse into one record);
\* every record carries an allowed code and no disallowed entry produces one.
IndicatorFilterDistinctCount ==
    (tpc = "done" /\ NumericComplete) =>
        /\ Len(df) = Cardinality({EntryReport(p) :
                                    p \in {q \in 1..Len(data.value) : EntryAllowed(q)}})
        /\ Len(df) <= Cardinality({p \in 1..Len(data.value) : EntryAllowed(p)})
        /\ \A j \in 1..Len(df) : df[j].indicator_code \in Range(target_indicators)
        /\ \A p \in 1..Len(data.value) :
              ~EntryAllowed(p) => EntryKey(p) \notin Range(origin)

\* an allowed and a disallowed entry, both numeric, were transformed into
\* the one record of the allowed entry
IndicatorFilterWitness ==
    /\ tpc = "done"
    /\ NumericComplete
    /\ Len(data.value) = 2
    /\ EntryAllowed(1) /\ ~EntryAllowed(2)
    /\ EntryCode(2, indicator_dim) = "X"
    /\ Len(df) = 1
    /\ df[1].indicator_code = "GEP"
    /\ origin = <<EntryKey(1)>>

\* C6: every record of the output has a finite numeric value.
OutputValuesFinite ==
    tpc = "done" => \A j \in 1..Len(df) : df[j].value.kind = "finite"

\* the raw values that are no number: the ":" sentinel and JSON null
NonNumeric == {":", "None"}

\* C7: an entry whose raw value does not parse is skipped on its own: it
\* yields no record, the transform does not raise on it, and every other
\* processed entry that parses, decodes and carries an allowed indicator
\* code has its record.
SentinelSkippedAlone ==
    /\ \A p \in Processed :
          IF EntryRaw(p) \in NonNumeric
          THEN EntryKey(p) \notin Range(origin)
          ELSE EntryAllowed(p) => EntryKey(p) \in Range(origin)
    /\ (tpc = "raised" /\ pos < Len(data.value)) => EntryRaw(pos + 1) \notin NonNumeric
    /\ (tpc \in {"loop", "done"} /\ pos = Len(data.value)) =>
          Len(result) = Cardinality({p \in 1..Len(data.value) : EntryAllowed(p)})

\* a sentinel and a valid entry were both processed; only the valid one has a row
SentinelSkippedWitness ==
    /\ tpc = "done"
    /\ Len(data.value) = 2
    /\ EntryRaw(1) = ":"
    /\ EntryRaw(2) = "100.5"
    /\ origin = <<EntryKey(2)>>
    /\ Len(df) = 1

\* the positions of the dimensions whose label keys hold a target indicator
TargetDims ==
    {i \in 1..Len(data.dimension) :
        Range(target_indicators) \cap Range(Keys(data.dimension[i].label)) # {}}

\* C8: detect_indicator_dimension returns the first dimension whose labels
\* contain a target indicator and None exactly when there is none; on None
\* transform_dataset returns an empty result without raising.
DetectFirstOrSoftFail ==
    tpc \notin {"start", "idle"} =>
        /\ (indicator_dim = "None") <=> (TargetDims = {})
        /\ TargetDims # {} =>
              indicator_dim =
                  data.dimension[CHOOSE i \in TargetDims : \A j \in TargetDims : i <= j].name
        /\ indicator_dim = "None" =>
              tpc = "done" /\ df = <<>> /\ result = <<>> /\ error = "None"

\* a cube with dimensions and numeric values but no target indicator came
\* back empty
DetectSoftFailWitness ==
    /\ tpc = "done"
    /\ indicator_dim = "None"
    /\ Len(data.dimension) = 3
    /\ Len(data.value) = 2
    /\ \A p \in 1..2 : EntryRaw(p) = "100.5"
    /\ df = <<>>
\* -------------------------------------------------------- Forecast: claims
\* the years of the observations of the requested (entity, indicator): the
\* index of the series after per-year averaging
InputYears ==
    {obs[k].time : k \in {j \in 1..Len(obs) :
                            obs[j].geo = country /\ obs[j].indicator = indicator}}
Forecasted == fpc = "done" /\ model_used # NoForecast
SegmentYears(type) ==
    {forecast_df[k].year : k \in {j \in 1..Len(forecast_df) : forecast_df[j].type = type}}
SegmentRows(type) == SelectSeq(forecast_df, LAMBDA r : r.type = type)

\* C3: in a successful forecast the years of the rows tagged historical are
\* exactly the years of the input series.
HistoricalYearsAreInputYears ==
    Forecasted => SegmentYears("historical") = InputYears

\* C4: in a successful forecast with horizon h the rows tagged forecast are
\* h rows for the years last+1 .. last+h after the last historical year; no
\* year is in both segments.
ForecastYearsFollowHistory ==
    Forecasted =>
        LET last == Max(SegmentYears("historical"))
        IN /\ Len(SegmentRows("forecast")) = horizon
           /\ SegmentYears("forecast") = (last + 1)..(last + horizon)
           /\ SegmentYears("forecast") \cap SegmentYears("historical") = {}

\* C9: with fewer than 5 distinct years for the requested (entity,
\* indicator), none included, run_forecast goes straight to the empty
\* result named "No forecast (insufficient data)": no model is trained.
ShortSeriesNoForecast ==
    Cardinality(InputYears) < 5 =>
        /\ fpc \in {"idle", "start", "done"}
        /\ fpc = "done" =>
              forecast_df = <<>> /\ model_used = "No forecast (insufficient data)"

\* a four-year series came back as the insufficient-data result
ShortSeriesWitness ==
    /\ fpc = "done"
    /\ country = "DE"
    /\ Cardinality(InputYears) = 4
    /\ Len(series) = 4
    /\ forecast_df = <<>>
    /\ model_used = NoForecast

\* the rows returned are those of forecaster result r, tagged
ReturnedFrom(r) ==
    /\ model_used = r.name
    /\ Range(forecast_df) = Range(Tagged(r.hist, "historical"))
                            \cup Range(Tagged(r.future, "forecast"))

\* C10: the candidate with the strictly lower RMSE is returned, XGBoost on
\* equal RMSE, and a forecaster that reported insufficient data never is.
SelectorPicksLowerRmse ==
    (fpc = "done" /\ Len(series) >= 5) =>
        /\ (x_res.ok /\ es_res.ok /\ x_res.rmse <= es_res.rmse) => ReturnedFrom(x_res)
        /\ (x_res.ok /\ es_res.ok /\ es_res.rmse < x_res.rmse) => ReturnedFrom(es_res)
        /\ (x_res.ok /\ ~es_res.ok) => ReturnedFrom(x_res)
        /\ (es_res.ok /\ ~x_res.ok) => ReturnedFrom(es_res)
        /\ ~x_res.ok => model_used # "XGBoost"
        /\ ~es_res.ok => model_used # "ExponentialSmoothing"
        /\ model_used \notin {x_res.name, es_res.name} =>
              ~x_res.ok /\ ~es_res.ok /\ model_used = NoForecast

\* both forecasters were candidates and the smoothing one, with the lower
\* RMSE, was returned
SelectorWitness ==
    /\ fpc = "done"
    /\ x_res.ok /\ es_res.ok
    /\ es_res.rmse < x_res.rmse
    /\ model_used = "ExponentialSmoothing"

\* ------------------------------------------------- claims: feature builder
\* C11: for a series of n >= 4 yearly points the feature table has exactly
\* n - 3 rows, the first three points dropped, and in every row lag_j
\* (j = 1..3) is the raw value j row positions earlier in the series, whatever
\* the years are; for n <= 3 the table is empty.
FeatureRowsByOffset ==
    fpc = "features_done" =>
        LET n == Len(series)
        IN IF n <= 3 THEN base_df = <<>>
           ELSE /\ Len(base_df) = n - 3
                /\ \A i \in 1..(n - 3) :
                      /\ base_df[i].year = series[i + 3].year
                      /\ base_df[i].value = series[i + 3].value
                      /\ \A j \in 1..3 : base_df[i].lags[j] = series[i + 3 - j].value

\* a five-point series with a gap in its years gives two feature rows
FeatureRowsWitness ==
    /\ fpc = "features_done"
    /\ Len(series) = 5
    /\ series[5].year - series[1].year > 4
    /\ Len(base_df) = 2

\* ------------------------------------------- claims: structural validity
\* C12: for a cube whose dimension-id list and size list differ in length
\* transform_dataset never returns normally, whatever the sparse value map
\* holds (nothing, or only non-numeric values, included): it raises.
LengthMismatchRaises ==
    Len(DimIds(data)) # Len(data.size) => tpc # "done"

\* ------------------------------------------------------- claims: cleaning
Terminal == tpc \in {"done", "raised"}
\* the records left after the duplicate and the null filters
Surviving == DropNa(result, DropDuplicates(result))
FourDigitYears == {"2020", "2021"}

\* C13: if a record that survives the filtering and the cleaning has a time
\* period that is not a 4-digit year, transform_dataset ends with an error
\* and returns no records.
MalformedTimeRaises ==
    (Terminal /\ \E i \in Surviving : result[i].time \notin FourDigitYears)
        => (tpc = "raised" /\ df = <<>>)

\* a quarterly period reaches the date conversion and raises there
MalformedTimeWitness ==
    /\ tpc = "raised" /\ error = "ValueError"
    /\ \E i \in Surviving : result[i].time = "2020-Q1"

RequiredText == {"country_code", "country_name", "indicator_code", "indicator_label",
                 "time"}
\* the record has every required field: no None among the text fields and a
\* value that is not NaN
HasRequired(row) ==
    /\ \A col \in RequiredText : row[col] # "None"
    /\ row.value.kind # "nan"

\* C14: every output record has a non-null entity code, entity name,
\* indicator code, indicator label, time and value; a record missing one of
\* them is dropped without raising (an error of the cleaning is always due to
\* a record that has them all), and no record that has them all is dropped
\* by this step.
RequiredFieldsPresent ==
    /\ tpc = "done" =>
          /\ \A j \in 1..Len(df) :
                /\ HasRequired(result[df_index[j]])
                /\ \A col \in RequiredText \ {"time"} : df[j][col] # "None"
                /\ df[j].value.kind # "nan"
          /\ \A i \in DropDuplicates(result) :
                HasRequired(result[i]) => i \in Range(df_index)
    /\ (tpc = "raised" /\ error = "ValueError") =>
          \E i \in DropDuplicates(result) :
             HasRequired(result[i]) /\ result[i].time \notin FourDigitYears

\* one record with a label and one whose indicator code has none: the second
\* is dropped, the first is returned
RequiredFieldsWitness ==
    /\ tpc = "done"
    /\ Len(result) = 2 /\ Len(df) = 1
    /\ HasRequired(result[1])
    /\ result[2].indicator_label = "None" /\ result[2].value.kind = "finite"

\* ------------------------------------------------ claims: category codes
\* the code an index map declares at position p
DeclaredCode(index, p) == index[CHOOSE k \in 1..Len(index) : index[k][2] = p][1]

\* C15: in every record, for every dimension the record carries (geo, time,
\* unit, the indicator dimension), the category code is the one whose
\* declared position in that dimension's index map equals the decoded
\* coordinate, in whatever order the index map lists its keys.
CodeAtDeclaredPosition ==
    \A j \in 1..Len(result) :
        LET idx == unravel_index(origin[j], data.size)
        IN \A i \in 1..Len(DimIds(data)) :
              LET name == DimIds(data)[i]
                  code == DeclaredCode(Indexes(data)[i], idx[i])
              IN /\ name = "geo" => result[j].country_code = code
                 /\ name = "time" => result[j].time = code
                 /\ name = "unit" => result[j].unit_code = code
                 /\ name = indicator_dim => result[j].indicator_code = code

\* ------------------------------------------- claims: forecaster candidates
\* run_forecast is past its length check with a series of at least 5 points
Training == fpc \in {"xgb", "xgb_step", "es", "select", "done"} /\ Len(series) >= 5

\* C16: for a series of n >= 5 points test_size is min(5, max(2, n div 3)),
\* a value in 2..5; the smoothing forecaster is never insufficient (n >
\* test_size + 2); the tree-based forecaster is a candidate exactly when
\* n >= 7; so run_forecast never ends without a candidate, and for n = 5 or
\* 6 the model returned is ExponentialSmoothing.
TestSizeAndCandidates ==
    Training =>
        LET n == Len(series)
        IN /\ test_size \in 2..5
           /\ n \div 3 <= 2 => test_size = 2
           /\ n \div 3 \in 3..4 => test_size = n \div 3
           /\ n \div 3 >= 5 => test_size = 5
           /\ n > test_size + 2
           /\ fpc \in {"select", "done"} => es_res.ok
           /\ fpc \in {"es", "select", "done"} => (x_res.ok <=> n >= 7)
           /\ fpc = "xgb_step" => n >= 7
           /\ fpc = "done" => (model_used # NoForecast /\ forecast_df # <<>>)
           /\ (fpc = "done" /\ n \in {5, 6}) => model_used = "ExponentialSmoothing"

\* a 15-point series: five points held out, both forecasters candidates
TestSizeWitness ==
    /\ fpc = "done"
    /\ Len(series) = 15
    /\ test_size = 5
    /\ x_res.ok /\ es_res.ok

\* --------------------------------------------- claims: tree-based forecaster
\* _train_xgb is past its insufficient-data check (line 60)
XgbChecked == fpc \in {"xgb_step", "es"}

\* C17: _train_xgb returns the insufficient-data result (no history, no
\* forecast, no RMSE) exactly when the feature table is empty or has at most
\* test_size + 1 rows, that is when n - 3 <= test_size + 1 for a series of n
\* points; otherwise it fits and returns a forecast of horizon rows.
XgbInsufficientExactly ==
    XgbChecked =>
        LET n == Len(series)
            short == n - 3 <= test_size + 1
        IN /\ short <=> (base_df = <<>> \/ Len(base_df) <= test_size + 1)
           /\ short => /\ fpc = "es"
                       /\ ~x_res.ok
                       /\ x_res.hist = <<>> /\ x_res.future = <<>>
                       /\ x_res.name = "XGBoost (insufficient data)"
                       /\ future_rows = <<>>
           /\ ~short => \/ fpc = "xgb_step"
                        \/ /\ x_res.ok
                           /\ x_res.name = "XGBoost"
                           /\ x_res.hist # <<>>
                           /\ Len(x_res.future) = horizon

\* a feature table of exactly test_size + 1 rows is still insufficient
XgbInsufficientWitness ==
    /\ fpc = "es"
    /\ ~x_res.ok
    /\ Len(series) - 3 = test_size + 1
    /\ Len(base_df) = test_size + 1

\* _train_xgb has fitted its model
XgbFitted == fpc = "xgb_step" \/ (fpc = "es" /\ x_res.ok)

\* C18: the held-out rows are exactly the last test_size rows of the feature
\* table and the rows the model is fitted on exactly the rows before them:
\* the two are disjoint, together they are the table, the training rows are
\* not empty and every training year is earlier than every held-out year.
HeldOutIsTail ==
    XgbFitted =>
        LET n == Len(base_df)
            train == split.train
            test == split.test
        IN /\ Len(test) = test_size
           /\ \A k \in 1..test_size : test[k] = base_df[n - test_size + k]
           /\ Len(train) = n - test_size
           /\ \A k \in 1..(n - test_size) : train[k] = base_df[k]
           /\ train \o test = base_df
           /\ Range(train) \cap Range(test) = {}
           /\ train # <<>>
           /\ \A a \in Range(train), b \in Range(test) : a.year < b.year

\* a four-row table with a gap in its years, one row held out, three fitted
HeldOutWitness ==
    /\ fpc = "xgb_step"
    /\ test_size = 1
    /\ Len(base_df) = 4
    /\ base_df[4].year - base_df[1].year > 3
    /\ Len(split.train) = 3 /\ Len(split.test) = 1

\* C19: each prediction is appended to the working history before the next
\* step: after step s the history is the original values, unmodified,
\* followed by the s predictions; the lags of step s are the three values
\* that ended the history before it, so from step 2 on lag1 is the
\* prediction of step s - 1, lag2 the value before it and lag3 the one
\* before that.
RecursionFeedsBack ==
    (fpc = "xgb_step" /\ step >= 2) =>
        LET s == step - 1
            m == Len(base_df)
            L == Len(history_values)
        IN /\ L = m + s
           /\ \A k \in 1..m : history_values[k] = base_df[k].value
           /\ Len(future_rows) = s
           /\ \A k \in 1..s : history_values[m + k] = future_rows[k].value
           /\ \A j \in 1..3 : feats.lags[j] = history_values[L - j]
           /\ s >= 2 => feats.lags[1] = future_rows[s - 1].value

\* two steps taken: the first prediction, which differs from the last
\* original value, is lag1 of the second step
RecursionWitness ==
    /\ fpc = "xgb_step"
    /\ step = 3
    /\ feats.lags[1] = future_rows[1].value
    /\ feats.lags[2] = base_df[Len(base_df)].value
    /\ feats.lags[1] # feats.lags[2]

\* the working history the latest step built its features from
HistoryBeforeStep == SubSeq(history_values, 1, Len(history_values) - 1)

BuilderWindow(lags, value) == <<lags[2], lags[1], value>>

\* C21: the feature row of a future year is built as the Feature Builder
\* builds the rows the model was fitted on: its rolling window is the three
\* values ending at the row itself (the predicted one) and its standard
\* deviation has the divisor offset of the training rows.
FutureRowLikeTrainingRow ==
    (fpc = "xgb_step" /\ step >= 2) =>
        /\ \A k \in 1..Len(base_df) :
              /\ base_df[k].roll_window = BuilderWindow(base_df[k].lags, base_df[k].value)
              /\ base_df[k].roll_ddof = feats.roll_ddof
        /\ feats.roll_window = BuilderWindow(feats.lags, future_rows[step - 1].value)

\* ------------------------------------------------------ claims: ETL batch
\* the frames of the datasets dealt with that transformed to a non-empty
\* result, in the order of the list
NonEmptyFrames ==
    LET kept == SelectSeq(outcomes, LAMBDA o : o.frame # <<>>)
    IN [k \in 1..Len(kept) |-> kept[k].frame]

\* the dataset ended in a soft failure: it was not fetched, or it
\* transformed to an empty result
SoftFailed(o) == o.fetch \in {"request_error", "missing_keys"} \/ o.frame = <<>>

\* C22: a soft failure on a dataset (failed fetch, missing key, no indicator
\* dimension, empty transform result) skips that dataset only: the datasets
\* are dealt with one after the other in the order of the list, none left
\* out after a failure, every fetched one is transformed, the batch stops
\* early only when a transform raises, and the load step receives exactly
\* the records of the datasets that transformed to a non-empty result.
SoftFailureSkipsOnlyThatDataset ==
    bpc # "idle" =>
        /\ \A i \in 1..Len(outcomes) : outcomes[i].code = DATASETS[i].code
        /\ bpc \in {"fetch", "transform", "raised"} => Len(outcomes) = di - 1
        /\ bpc = "transform" => (di <= Len(DATASETS) /\ tpc # "idle")
        /\ bpc = "raised" => tpc = "raised"
        /\ all_dataframes = NonEmptyFrames
        /\ bpc # "done" => loaded = NotLoaded
        /\ bpc = "done" =>
              /\ Len(outcomes) = Len(DATASETS)
              /\ loaded.called <=> (\E i \in 1..Len(outcomes) : ~SoftFailed(outcomes[i]))
              /\ loaded.rows = Concat(NonEmptyFrames)

\* the first dataset's fetch failed, the second was still transformed and
\* its records alone were loaded
SoftFailureWitness ==
    /\ bpc = "done"
    /\ outcomes[1].fetch = "request_error"
    /\ outcomes[2].fetch = "ok" /\ outcomes[2].frame # <<>>
    /\ loaded.called /\ loaded.rows = outcomes[2].frame
====
